---- MODULE Spec2Model ----
(***************************************************************************)
(* Verification model of the stviewer glue code:                           *)
(*   - pv_pipeline/pv_actors.py      (actor list and outliner tree)        *)
(*   - static_viewer/pv_pipeline/pv_morphogenesis.py (trajectory stages)   *)
(*   - assets/anndata_preprocess.py  (reduced AnnData file)                *)
(*   - assets/dataset_manager.py     (LocalFileManager)                    *)
(* Each component has its own specification over the shared variables; the *)
(* variables of the other components stay at their initial value.          *)
(***************************************************************************)
EXTENDS Integers, Sequences, FiniteSets, TLC

VARIABLES
    stage,      \* pv_actors: position inside init_actors ("init","actors","tree")
    vis,        \* pv_actors: visibility flag of every actor object
    call,       \* pv_actors: arguments handed to generate_actors_tree
    treeRes,    \* pv_actors: what generate_actors_tree returned or raised
    morphoRes,  \* pv_morphogenesis: what morphogenesis returned or raised
    adRes,      \* anndata_preprocess: input, returned object, written file
    assests,    \* LocalFileManager._assests
    stored,     \* history: per key, what the latest storing call returned
    lastRet     \* LocalFileManager: the last operation and what it returned

vars == <<stage, vis, call, treeRes, morphoRes, adRes, assests, stored, lastRet>>

(***************************************************************************)
(* Python values shared by the components                                  *)
(***************************************************************************)
None == [none |-> TRUE]

Idle == [kind |-> "idle"]

Some(x) == [val |-> x]

Range(s) == {s[i] : i \in DOMAIN s}

Digits == <<"0", "1", "2", "3", "4", "5", "6", "7", "8", "9">>

\* str(n) for a non-negative int: its decimal digits, most significant first
RECURSIVE Str(_)
Str(n) == IF n < 10 THEN <<Digits[n + 1]>>
          ELSE Str(n \div 10) \o <<Digits[(n % 10) + 1]>>

(***************************************************************************)
(* pv_actors.py                                                            *)
(***************************************************************************)
MaxPc == 6
MaxMesh == 6

PcPool == [i \in 1..MaxPc |-> i]
MeshPool == [i \in 1..MaxMesh |-> MaxPc + i]
Actors == 1..(MaxPc + MaxMesh)

PcNames == [i \in 1..MaxPc |-> <<"pc", i>>]
MeshNames == [i \in 1..MaxMesh |-> <<"mesh", i>>]

NoCall == [pc_actors |-> None, pc_actor_ids |-> None,
           mesh_actors |-> None, mesh_actor_ids |-> None]

\* the loop of standard_tree over enumerate(actors): actor.SetVisibility(i == 0)
SetVisibilityMutAll(v, actors) ==
    [a \in DOMAIN v |-> IF a \in Range(actors) THEN TRUE ELSE v[a]]

SetVisibility(v, actors) ==
    [a \in DOMAIN v |->
        IF \E i \in DOMAIN actors : actors[i] = a
        THEN \E i \in DOMAIN actors : actors[i] = a /\ i - 1 = 0
        ELSE v[a]]

\* one dict of the tree comprehension, i being the 0-based enumerate index
TreeEntry(actor_names, base_id, i) ==
    [id |-> Str(base_id + 1 + i),
     parent |-> IF i = 0 THEN Str(0) ELSE Str(base_id + 1),
     visible |-> IF i = 0 THEN TRUE ELSE FALSE,
     name |-> actor_names[i + 1]]

standard_tree(v, actors, actor_names, base_id) ==
    [vis |-> SetVisibility(v, actors),
     actors |-> actors,
     actor_names |-> actor_names,
     tree |-> [j \in 1..Len(actor_names) |-> TreeEntry(actor_names, base_id, j - 1)]]

\* base_id handed to the mesh group: 0 if pc_actors is None else len(pc_actors)
MeshBaseIdMutZero(pc_actors) == 0

MeshBaseId(pc_actors) == IF pc_actors = None THEN 0 ELSE Len(pc_actors.val)

\* variant that rejects a missing group before touching any actor
generate_actors_treeMutGuard(v, c) ==
    IF c.pc_actors = None \/ c.mesh_actors = None
    THEN [vis |-> v,
          ret |-> [kind |-> "TypeError", at |-> "totel_actors = pc_actors + mesh_actors"]]
    ELSE LET pc == standard_tree(v, c.pc_actors.val, c.pc_actor_ids.val, 0)
             mesh == standard_tree(pc.vis, c.mesh_actors.val, c.mesh_actor_ids.val,
                                   MeshBaseId(c.pc_actors))
         IN  [vis |-> mesh.vis,
              ret |-> [kind |-> "ok",
                       actors |-> pc.actors \o mesh.actors,
                       actor_ids |-> pc.actor_names \o mesh.actor_names,
                       tree |-> pc.tree \o mesh.tree]]

\* generate_actors_tree: the new visibility flags and the value returned/raised
generate_actors_tree(v, c) ==
    LET pc == IF c.pc_actors # None
              THEN standard_tree(v, c.pc_actors.val, c.pc_actor_ids.val, 0)
              ELSE [vis |-> v, actors |-> None, actor_names |-> None, tree |-> None]
        pcA == IF c.pc_actors # None THEN Some(pc.actors) ELSE None
        mesh == IF c.mesh_actors # None
                THEN standard_tree(pc.vis, c.mesh_actors.val, c.mesh_actor_ids.val,
                                   MeshBaseId(pcA))
                ELSE [vis |-> pc.vis, actors |-> None, actor_names |-> None, tree |-> None]
    IN  [vis |-> mesh.vis,
         ret |-> IF c.pc_actors = None \/ c.mesh_actors = None
                 THEN [kind |-> "TypeError", at |-> "totel_actors = pc_actors + mesh_actors"]
                 ELSE [kind |-> "ok",
                       actors |-> pc.actors \o mesh.actors,
                       actor_ids |-> pc.actor_names \o mesh.actor_names,
                       tree |-> pc.tree \o mesh.tree]]

\* generate_actors: one actor per model, None for a group whose models are None
GenerateActors ==
    /\ stage = "init"
    /\ \E k \in -1..MaxPc, m \in -1..MaxMesh, nk \in 0..MaxPc, nm \in 0..MaxMesh :
          /\ (k = -1) => (nk = 0)
          /\ (m = -1) => (nm = 0)
          /\ call' = [pc_actors |-> IF k = -1 THEN None ELSE Some(SubSeq(PcPool, 1, k)),
                      pc_actor_ids |-> IF k = -1 THEN None ELSE Some(SubSeq(PcNames, 1, nk)),
                      mesh_actors |-> IF m = -1 THEN None ELSE Some(SubSeq(MeshPool, 1, m)),
                      mesh_actor_ids |-> IF m = -1 THEN None ELSE Some(SubSeq(MeshNames, 1, nm))]
    /\ stage' = "actors"
    /\ UNCHANGED <<vis, treeRes, morphoRes, adRes, assests, stored, lastRet>>

GenerateActorsTree ==
    /\ stage = "actors"
    /\ LET r == generate_actors_tree(vis, call)
       IN  /\ vis' = r.vis
           /\ treeRes' = r.ret
    /\ stage' = "tree"
    /\ UNCHANGED <<call, morphoRes, adRes, assests, stored, lastRet>>

InitOthers ==
    /\ morphoRes = Idle
    /\ adRes = Idle
    /\ assests = <<>>
    /\ stored = <<>>
    /\ lastRet = [op |-> "none"]

InitActors ==
    /\ stage = "init"
    /\ vis = [a \in Actors |-> TRUE]
    /\ call = NoCall
    /\ treeRes = Idle

Init == InitActors /\ InitOthers

NextActors == GenerateActors \/ GenerateActorsTree

SpecActors == Init /\ [][NextActors]_vars

(***************************************************************************)
(* pv_morphogenesis.py                                                     *)
(* Floats are binary fixed-point numbers with FracBits fractional bits:    *)
(* the float x is the integer x * One.  Fate times are kept in tenths so   *)
(* that int(item) has something to truncate.                               *)
(***************************************************************************)
FracBits == 12
One == 2 ^ FracBits

\* 2 ** (1 / 2 ** j) for j = 1..FracBits, in fixed point
Root2 == <<5792, 4871, 4466, 4277, 4185, 4140, 4118, 4107, 4101, 4098, 4097, 4096>>

RECURSIVE ILog2(_)
ILog2(n) == IF n < 2 THEN 0 ELSE 1 + ILog2(n \div 2)

RECURSIVE FracLog2(_, _)
FracLog2(x, b) ==
    IF b = 0 THEN 0
    ELSE LET y == (x * x) \div One
         IN  IF y >= 2 * One THEN 2 ^ (b - 1) + FracLog2(y \div 2, b - 1)
             ELSE FracLog2(y, b - 1)

\* log2 of the integer n >= 1
Log2Fx(n) == LET k == ILog2(n)
             IN  k * One + FracLog2((n * One) \div (2 ^ k), FracBits)

\* np.log10 of the integer n >= 1
Log10Fx(n) == (Log2Fx(n) * One) \div Log2Fx(10)

RECURSIVE MantExp2(_, _)
MantExp2(f, j) ==
    IF j > FracBits THEN One
    ELSE LET rest == MantExp2(f, j + 1)
         IN  IF (f \div (2 ^ (FracBits - j))) % 2 = 1
             THEN (rest * Root2[j]) \div One
             ELSE rest

\* 2 ** e for a fixed-point e >= 0
Exp2Fx(e) == MantExp2(e % One, 1) * (2 ^ (e \div One))

\* 10 ** y for a fixed-point y >= 0
Pow10Fx(y) == Exp2Fx((y * Log2Fx(10)) \div One)

NumStages == 100
StepCap == 3000

\* np.linspace(0, stop, num)[i], i 0-based
Linspace(stop, num, i) == IF i = num - 1 THEN stop ELSE (i * stop) \div (num - 1)

\* np.logspace(0, stop, num): 10 ** linspace
Logspace(stop, num) == [i \in 1..num |-> Pow10Fx(Linspace(stop, num, i - 1))]

\* int(item) of a time given in tenths
IntOf(item) == item \div 10

RECURSIVE SortSet(_)
SortSet(S) == IF S = {} THEN <<>>
              ELSE LET m == CHOOSE x \in S : \A y \in S : x <= y
                   IN  <<m>> \o SortSet(S \ {m})

\* positions of "for sublist in t for item in sublist"
Items(t) == UNION {{<<c, j>> : j \in DOMAIN t[c]} : c \in DOMAIN t}

\* flats: np.unique of the truncated times, 0 prepended, those <= 3000, sorted
Flats(t) ==
    LET unique == {IntOf(t[c][j]) : <<c, j>> \in Items(t)}
        stacked == {0} \cup unique
    IN  SortSet({x \in stacked : x <= StepCap})

MaxOf(flats) == CHOOSE x \in Range(flats) : \A y \in Range(flats) : y <= x

\* time_vec = np.logspace(0, np.log10(max(flats) + 1), 100) - 1
TimeVec(t) ==
    LET ls == Logspace(Log10Fx(MaxOf(Flats(t)) + 1), NumStages)
    IN  [i \in 1..NumStages |-> ls[i] - One]

\* displace(cur_pts, dt)[1]: the state reached from cur_pts after time dt
\* under the autonomous field vf.func
Displace(cur_pts, dt) == [cur_pts EXCEPT !.elapsed = @ + dt]

\* one pass of the loop body: pts = [displace(cur_pts, time_vec[i])[1] ...]
RECURSIVE StepPts(_, _)
StepPts(pts, dt) ==
    IF pts = <<>> THEN <<>>
    ELSE <<Displace(Head(pts), dt)>> \o StepPts(Tail(pts), dt)

\* for i in range(100): pts = ...; stages_X.append(pts)   (i is 1-based here).
\* The two Len tests are always true; they make TLC evaluate the accumulated
\* lists in every iteration instead of nesting 100 unevaluated expressions.
RECURSIVE StagesLoop(_, _, _, _)
StagesLoop(stages_X, pts, time_vec, i) ==
    IF i <= NumStages /\ Len(stages_X) >= 0 /\ Len(pts) >= 0
    THEN StagesLoop(Append(stages_X, [kind |-> "pts", pts |-> StepPts(pts, time_vec[i])]),
                    StepPts(pts, time_vec[i]), time_vec, i + 1)
    ELSE stages_X

StagesXMutNoIndex(obs_index, init_states, time_vec) ==
    StagesLoop(<<>>, init_states, time_vec, 1)

\* stages_X = [source_adata.obs.index.tolist()] followed by the loop's appends
StagesX(obs_index, init_states, time_vec) ==
    StagesLoop(<<[kind |-> "index", names |-> obs_index]>>, init_states, time_vec, 1)

\* exception messages are word sequences
\* source_adata.obs.index.tolist() and uns["fate_morpho"]["init_states"]
RECURSIVE ObsIndex(_)
ObsIndex(n) == IF n = 0 THEN <<>> ELSE Append(ObsIndex(n - 1), <<"cell", n>>)

RECURSIVE InitStates(_)
InitStates(n) == IF n = 0 THEN <<>>
                 ELSE Append(InitStates(n - 1), [init |-> n, elapsed |-> 0])

SpateoMessage == <<"You", "need", "to", "install", "the", "package", "spateo",
                   "Install", "spateo", "via", "pip", "install", "spateo-release">>

\* the message Python itself gives a failed `import name`
NoModuleNamed(name) == <<"No", "module", "named", name>>

MorphoPointData == {"vectors", "V_Z", "acceleration", "curvature", "curl", "torsion"}

\* morphogenesis(source_adata, target_adata, source_pc_model) in an
\* environment with the packages `installed`; t is uns["fate_morpho"]["t"]
morphogenesis(installed, t) ==
    LET index == ObsIndex(Len(t))
        init == InitStates(Len(t))
        tvec == TimeVec(t)
    IN  IF "dynamo" \notin installed
        THEN [kind |-> "ModuleNotFoundError", msg |-> NoModuleNamed("dynamo"),
              installed |-> installed, t |-> t, point_data |-> {"obs_index"}]
        ELSE IF "spateo" \notin installed
        THEN [kind |-> "ImportError", msg |-> SpateoMessage,
              installed |-> installed, t |-> t, point_data |-> {"obs_index"}]
        ELSE [kind |-> "ok", installed |-> installed, t |-> t,
              point_data |-> {"obs_index"} \cup MorphoPointData,
              time_vec |-> tvec,
              stages_X |-> StagesX(index, init, tvec)]

MaxCells == 2

\* fate time lists of one cell, in tenths: 0.5 truncates to 0, 3000.9 to the
\* cap 3000, and 3001.0 lies beyond the cap
FateLists == {<<>>, <<5>>, <<0, 10>>, <<5, 70>>, <<10, 30009>>, <<30010>>, <<70, 30010>>}

Morphogenesis ==
    /\ morphoRes = Idle
    /\ \E installed \in SUBSET {"spateo", "dynamo"}, n \in 0..MaxCells :
          \E t \in [1..n -> FateLists] :
              morphoRes' = morphogenesis(installed, t)
    /\ UNCHANGED <<stage, vis, call, treeRes, adRes, assests, stored, lastRet>>

NextMorpho == Morphogenesis

SpecMorpho == Init /\ [][NextMorpho]_vars

(***************************************************************************)
(* anndata_preprocess.py                                                   *)
(* An AnnData object is a record of its containers.  A matrix or array     *)
(* records its row count, its layout and where its content comes from.     *)
(***************************************************************************)
Matrix(n, sparse, data) == [rows |-> n, sparse |-> sparse, data |-> data]

Coords(n, width, data) == [rows |-> n, width |-> width, data |-> data]

\* m.copy() if issparse(m) else csr_matrix(m)
AsSparse(m) == IF m.sparse THEN m ELSE [m EXCEPT !.sparse = TRUE]

\* dyn.pp.normalize_cell_expr_by_size_factors(adata, layers="X", skip_log=False):
\* X becomes the log1p of the size-normalised X; the annotations dynamo
\* leaves behind are the sets obs_added and uns_added
Normalize(adata, obs_added, uns_added) ==
    [adata EXCEPT !.X = [@ EXCEPT !.data = <<"log1p", @>>],
                  !.obs_cols = @ \cup obs_added,
                  !.uns = @ \cup uns_added]

\* spatial_coords = adata.obsm[spatial_key]
SpatialCoordsMutFixedKey(adata, spatial_key) ==
    IF "spatial" \in DOMAIN adata.obsm THEN adata.obsm["spatial"]
    ELSE adata.obsm[spatial_key]

SpatialCoords(adata, spatial_key) == adata.obsm[spatial_key]

\* del adata.uns, adata.layers, adata.obsm, adata.obsp, adata.varm
DelContainersMutKeepObsm(adata) ==
    [adata EXCEPT !.uns = {}, !.layers = <<>>, !.obsp = {}, !.varm = {}]

DelContainers(adata) ==
    [adata EXCEPT !.uns = {}, !.layers = <<>>, !.obsm = <<>>, !.obsp = {}, !.varm = {}]

\* d[key] = value on a container
SetItem(d, key, value) ==
    [k \in (DOMAIN d) \cup {key} |-> IF k = key THEN value ELSE d[k]]

KeyError(key, adata) ==
    [kind |-> "KeyError", msg |-> <<key>>, adata |-> adata, written |-> None]

\* anndata_preprocess(path, output_path, X_counts, X_log1p, spatial_key) on the
\* object `input` read from path, in an environment with the packages
\* `installed`.  Returns what was returned or raised, the in-memory object at
\* that moment and the file written to output_path (None if none was).
anndata_preprocess(input, X_counts, X_log1p, spatial_key, installed, obs_added, uns_added) ==
    IF X_counts \notin DOMAIN input.layers THEN KeyError(X_counts, input)
    ELSE LET counts == AsSparse(input.layers[X_counts])
         IN
    IF X_log1p # None /\ X_log1p.val \notin DOMAIN input.layers
    THEN KeyError(X_log1p.val, input)
    ELSE IF X_log1p = None /\ "dynamo" \notin installed
    THEN [kind |-> "ModuleNotFoundError", msg |-> NoModuleNamed("dynamo"),
          adata |-> input, written |-> None]
    ELSE LET normalized == IF X_log1p # None THEN input
                           ELSE Normalize([input EXCEPT !.X = counts],
                                          obs_added, uns_added)
             log1p == IF X_log1p # None THEN AsSparse(input.layers[X_log1p.val])
                      ELSE AsSparse(normalized.X)
         IN
    IF spatial_key \notin DOMAIN normalized.obsm THEN KeyError(spatial_key, normalized)
    ELSE LET spatial_coords == SpatialCoords(normalized, spatial_key)
             cleared == DelContainers(normalized)
             result == [cleared EXCEPT
                          !.X = counts,
                          !.layers = SetItem(@, "X_log1p", log1p),
                          !.obsm = SetItem(@, "spatial", spatial_coords)]
         IN  [kind |-> "ok", adata |-> result, written |-> Some(result)]

MaxObs == 2

LayerKeySets == {{"X_counts", "X_log1p"}, {"X_counts", "X_log1p", "spliced"},
                 {"X_counts"}, {"X_log1p"}}

ObsmKeySets == {{"3d_align_spatial"}, {"3d_align_spatial", "X_umap"},
                {"3d_align_spatial", "X_umap", "spatial"}, {"X_umap"}}

ObsmWidth(key) == IF key = "X_umap" THEN 2 ELSE 3

Annotated == {"uns", "obsp", "varm", "varp", "obs", "var"}

Entries(container, extras) == IF container \in extras THEN {<<container, "entry">>} ELSE {}

\* the object ad.read_h5ad returns for a file with n observations
ReadH5ad(n, layer_keys, sparse, obsm_keys, extras) ==
    [obs |-> [i \in 1..n |-> <<"obs", i>>],
     X |-> Matrix(n, sparse, "X"),
     layers |-> [k \in layer_keys |-> Matrix(n, sparse, k)],
     obsm |-> [k \in obsm_keys |-> Coords(n, ObsmWidth(k), k)],
     uns |-> Entries("uns", extras),
     obsp |-> Entries("obsp", extras),
     varm |-> Entries("varm", extras),
     varp |-> Entries("varp", extras),
     obs_cols |-> Entries("obs", extras),
     var_cols |-> Entries("var", extras)]

AnndataPreprocess ==
    /\ adRes = Idle
    /\ \E n \in 0..MaxObs, layer_keys \in LayerKeySets, sparse \in BOOLEAN,
          obsm_keys \in ObsmKeySets, extras \in SUBSET Annotated,
          X_log1p \in {None, Some("X_log1p")},
          spatial_key \in {"3d_align_spatial", "spatial"},
          installed \in SUBSET {"dynamo"},
          obs_added \in SUBSET {<<"obs", "Size_Factor">>} :
          LET input == ReadH5ad(n, layer_keys, sparse, obsm_keys, extras)
              r == anndata_preprocess(input, "X_counts", X_log1p, spatial_key,
                                      installed, obs_added, {<<"uns", "pp">>})
          IN  adRes' = [kind |-> r.kind, ret |-> r, input |-> input,
                        X_log1p |-> X_log1p, spatial_key |-> spatial_key,
                        installed |-> installed]
    /\ UNCHANGED <<stage, vis, call, treeRes, morphoRes, assests, stored, lastRet>>

NextAnndata == AnndataPreprocess

SpecAnndata == Init /\ [][NextAnndata]_vars

(***************************************************************************)
(* dataset_manager.py                                                      *)
(* A path string is known by its components; "/" leads an absolute path.   *)
(***************************************************************************)
PathParts(path) ==
    CASE path = "logo" -> <<"logo">>
      [] path = "assets" -> <<"assets">>
      [] path = "logo.png" -> <<"logo.png">>
      [] path = "./dataset" -> <<".", "dataset">>
      [] path = "/srv/logo.png" -> <<"/", "srv", "logo.png">>

\* self._root: the directory of base_path, resolved
Root == <<"/", "app", "assets">>

\* the regular files of the file system and their content
FileContent == (Root \o <<"logo.png">> :> "png-bytes-1") @@
               (<<"/", "srv", "logo.png">> :> "png-bytes-2")

IsAbsolute(parts) == parts # <<>> /\ parts[1] = "/"

IsNotDot(part) == part # "."

\* Path.resolve().absolute() of an absolute path: "." components dropped
Resolve(parts) == SelectSeq(parts, IsNotDot)

StrValue(parts) == [kind |-> "str", parts |-> parts]

\* LocalFileManager._to_path
ToPath(file_path) ==
    IF IsAbsolute(PathParts(file_path)) THEN Resolve(PathParts(file_path))
    ELSE Resolve(Root \o PathParts(file_path))

\* base64.b64encode(content).decode("ascii")
B64Encode(content) == <<"b64", content>>

\* trame.app.mimetypes.to_mime: decided by the file name
ToMime(parts) == IF parts[Len(parts)] = "logo.png" THEN "image/png"
                 ELSE "application/octet-stream"

Raised(kind) == [kind |-> "error", error |-> kind]

\* to_url: data:{mime};base64,{encoded}; open() raises for a missing file
ToUrl(parts) ==
    IF parts \in DOMAIN FileContent
    THEN [kind |-> "url", scheme |-> "data", mime |-> ToMime(parts),
          base64 |-> B64Encode(FileContent[parts])]
    ELSE Raised("OSError")

\* dict.get(name)
Get(d, name) == IF name \in DOMAIN d THEN d[name] ELSE None

\* if path is None: path, key = key, path
SwapArgsMutKeepKey(key, path) ==
    IF path = None THEN [key |-> key, path |-> key] ELSE [key |-> key, path |-> path]

SwapArgs(key, path) ==
    IF path = None THEN [key |-> path, path |-> key] ELSE [key |-> key, path |-> path]

\* if key is not None: self._assests[key] = data
StoreMutSkip(d, key, data) == d

Store(d, key, data) == IF key # None THEN SetItem(d, key.val, data) ELSE d

\* LocalFileManager.file_url: the new _assests and what is returned or raised
file_url(d, key, file_path) ==
    LET a == SwapArgs(key, file_path)
    IN  IF a.path = None THEN [assests |-> d, ret |-> Raised("TypeError")]
        ELSE LET data == ToUrl(ToPath(a.path.val))
             IN  IF data.kind = "error" THEN [assests |-> d, ret |-> data]
                 ELSE [assests |-> Store(d, a.key, data), ret |-> data]

\* LocalFileManager.dir_url
dir_url(d, key, dir_path) ==
    LET a == SwapArgs(key, dir_path)
    IN  IF a.path = None THEN [assests |-> d, ret |-> Raised("TypeError")]
        ELSE LET data == StrValue(ToPath(a.path.val))
             IN  [assests |-> Store(d, a.key, data), ret |-> data]

\* LocalFileManager.__getitem__
GetItem(d, name) == Get(d, name)

Methods == {"file_url", "dir_url", "get_assets", "_to_path"}
Properties == {"assets"}
InstanceAttrs == {"_root", "_assests"}

DictValue(d) == [kind |-> "dict", items |-> d]

\* manager.<name>: __getattr__ is consulted only when the instance and the
\* class define no attribute of that name
GetAttr(d, name) ==
    IF name \in Methods THEN [kind |-> "method", name |-> name]
    ELSE IF name \in Properties THEN DictValue(d)
    ELSE IF name = "_assests" THEN DictValue(d)
    ELSE IF name = "_root" THEN StrValue(Root)
    ELSE Get(d, name)

\* LocalFileManager.get_assets(*keys)
get_assets(d, keys) ==
    IF Len(keys) = 0 THEN DictValue(d)
    ELSE DictValue([k \in Range(keys) |-> Get(d, k)])

KeyStrings == {"logo", "assets", "logo.png"}
PathStrings == {"logo.png", "./dataset", "/srv/logo.png"}
Names == KeyStrings \cup {"file_url", "_root"}
MaxKeys == 2

Optional(S) == {None} \cup {Some(x) : x \in S}

\* history: a call that names a key and a path and returns stores its result
Remember(key, path, ret) ==
    IF key # None /\ path # None /\ ret.kind # "error"
    THEN SetItem(stored, key.val, ret) ELSE stored

FileUrl ==
    /\ \E key \in Optional(KeyStrings), path \in Optional(PathStrings) :
          LET r == file_url(assests, key, path)
          IN  /\ assests' = r.assests
              /\ stored' = Remember(key, path, r.ret)
              /\ lastRet' = [op |-> "file_url", key |-> key, path |-> path, ret |-> r.ret]
    /\ UNCHANGED <<stage, vis, call, treeRes, morphoRes, adRes>>

DirUrl ==
    /\ \E key \in Optional(KeyStrings), path \in Optional(PathStrings) :
          LET r == dir_url(assests, key, path)
          IN  /\ assests' = r.assests
              /\ stored' = Remember(key, path, r.ret)
              /\ lastRet' = [op |-> "dir_url", key |-> key, path |-> path, ret |-> r.ret]
    /\ UNCHANGED <<stage, vis, call, treeRes, morphoRes, adRes>>

Lookup ==
    /\ \E name \in Names :
          lastRet' = [op |-> "getitem", name |-> name, ret |-> GetItem(assests, name)]
    /\ UNCHANGED <<stage, vis, call, treeRes, morphoRes, adRes, assests, stored>>

AttrLookup ==
    /\ \E name \in Names :
          lastRet' = [op |-> "getattr", name |-> name, ret |-> GetAttr(assests, name)]
    /\ UNCHANGED <<stage, vis, call, treeRes, morphoRes, adRes, assests, stored>>

GetAssets ==
    /\ \E n \in 0..MaxKeys : \E keys \in [1..n -> Names] :
          lastRet' = [op |-> "get_assets", keys |-> keys, ret |-> get_assets(assests, keys)]
    /\ UNCHANGED <<stage, vis, call, treeRes, morphoRes, adRes, assests, stored>>

NextManager == FileUrl \/ DirUrl \/ Lookup \/ AttrLookup \/ GetAssets

SpecManager == Init /\ [][NextManager]_vars

(***************************************************************************)
(* Properties of pv_actors.py                                              *)
(***************************************************************************)
TreeBuilt == stage = "tree" /\ treeRes.kind = "ok"

NumPc == Len(call.pc_actors.val)
NumMesh == Len(call.mesh_actors.val)

NamesMatch == /\ Len(call.pc_actor_ids.val) = NumPc
              /\ Len(call.mesh_actor_ids.val) = NumMesh

VisibleActors == {i \in DOMAIN treeRes.actors : vis[treeRes.actors[i]]}

VisibleRoots == {i \in DOMAIN treeRes.tree :
                    treeRes.tree[i].visible /\ treeRes.tree[i].parent = Str(0)}

\* C1 (as stated): for k >= 1 point-cloud and m >= 1 mesh actors exactly one
\* actor, the first of the whole list, is visible and exactly one tree entry
\* is a visible root.
C1_OneVisibleActor ==
    (TreeBuilt /\ NumPc >= 1 /\ NumMesh >= 1 /\ NamesMatch) =>
        /\ VisibleActors = {1}
        /\ Cardinality(VisibleRoots) = 1

\* C1 (amended): for k >= 1 point-cloud and m >= 1 mesh actors with matching
\* names exactly two actors are visible, the first point-cloud actor and the
\* first mesh actor, the other k+m-2 are not, and exactly the two tree
\* entries of these actors are visible roots (parent "0").
C1_OneVisiblePerGroup ==
    (TreeBuilt /\ NumPc >= 1 /\ NumMesh >= 1 /\ NamesMatch) =>
        /\ VisibleActors = {1, NumPc + 1}
        /\ Cardinality(DOMAIN treeRes.actors \ VisibleActors) = NumPc + NumMesh - 2
        /\ VisibleRoots = {1, NumPc + 1}
        /\ \A i \in DOMAIN treeRes.tree :
              treeRes.tree[i].visible = vis[treeRes.actors[i]]

C1_Witness ==
    /\ TreeBuilt /\ NumPc >= 2 /\ NumMesh >= 2 /\ NamesMatch
    /\ vis[treeRes.actors[NumPc + 1]]
    /\ ~vis[treeRes.actors[NumPc + 2]]

\* C2: with as many names as actors in each group the ids of the k+m tree
\* entries are pairwise distinct and none is the root parent id "0".
C2_IdsUnique ==
    (TreeBuilt /\ NamesMatch) =>
        /\ Len(treeRes.tree) = NumPc + NumMesh
        /\ \A i, j \in DOMAIN treeRes.tree :
              (i # j) => (treeRes.tree[i].id # treeRes.tree[j].id)
        /\ \A i \in DOMAIN treeRes.tree : treeRes.tree[i].id # Str(0)

C2_Witness ==
    /\ TreeBuilt /\ NamesMatch /\ NumPc >= 2 /\ NumMesh >= 2
    /\ \E i \in DOMAIN treeRes.tree : Len(treeRes.tree[i].id) = 2

OneGroupMissing == (call.pc_actors = None) # (call.mesh_actors = None)

ProvidedActors == IF call.pc_actors = None THEN call.mesh_actors.val
                  ELSE call.pc_actors.val

\* C9: generate_actors_tree returns a tree only when both groups are given;
\* with exactly one group None it raises at the concatenation, and by then
\* the provided group's flags are already set (first True, rest False).
C9_FailsAfterSettingFlags ==
    (stage = "tree") =>
        /\ (treeRes.kind = "ok") <=>
              (call.pc_actors # None /\ call.mesh_actors # None)
        /\ OneGroupMissing =>
              /\ treeRes.kind = "TypeError"
              /\ treeRes.at = "totel_actors = pc_actors + mesh_actors"
              /\ \A i \in DOMAIN ProvidedActors :
                    vis[ProvidedActors[i]] = (i = 1)

C9_Witness ==
    /\ stage = "tree" /\ OneGroupMissing /\ treeRes.kind = "TypeError"
    /\ Len(ProvidedActors) >= 2
    /\ vis # [a \in Actors |-> TRUE]


(***************************************************************************)
(* Properties of pv_morphogenesis.py                                       *)
(***************************************************************************)
MorphoDone == morphoRes.kind = "ok"

NumCells == Len(morphoRes.t)

IsSnapshot(e) == e.kind = "pts" /\ Len(e.pts) = NumCells

\* C3 (as stated): for every number of cells the returned stages_X has length
\* 100 and every element is a per-cell position snapshot.
C3_HundredStages ==
    MorphoDone =>
        /\ Len(morphoRes.stages_X) = NumStages
        /\ \A j \in DOMAIN morphoRes.stages_X : IsSnapshot(morphoRes.stages_X[j])

\* C3 (amended): for every number of cells the returned stages_X has length
\* 101: its first element is the list of observation names, and the 100
\* elements after it are per-cell position snapshots.
C3_IndexThenHundredStages ==
    MorphoDone =>
        /\ Len(morphoRes.stages_X) = NumStages + 1
        /\ morphoRes.stages_X[1].kind = "index"
        /\ Len(morphoRes.stages_X[1].names) = NumCells
        /\ \A j \in 2..(NumStages + 1) : IsSnapshot(morphoRes.stages_X[j])
        /\ Cardinality({j \in DOMAIN morphoRes.stages_X :
                            IsSnapshot(morphoRes.stages_X[j])}) = NumStages

C3_Witness ==
    /\ MorphoDone /\ NumCells = MaxCells
    /\ morphoRes.stages_X[NumStages + 1].kind = "pts"
    /\ morphoRes.stages_X[NumStages + 1].pts[MaxCells].elapsed > 0

\* C4: the time values of the 100 stages increase from each stage to the
\* next, for every set of fate time points, also when none lies in 1..3000.
C4_TimeVecIncreasing ==
    MorphoDone =>
        \A i \in 1..(NumStages - 1) : morphoRes.time_vec[i] < morphoRes.time_vec[i + 1]

(***************************************************************************)
(* Properties of anndata_preprocess.py                                     *)
(***************************************************************************)
AdDone == adRes.kind = "ok"

AdOut == adRes.ret.adata

AdFile == adRes.ret.written.val

\* C5 (as stated): the written and returned dataset holds only the counts as
\* X, the "X_log1p" layer and the "spatial" coordinates; every other layer,
\* obsm entry, and uns, obsp, varm, varp, obs column and var column is absent.
C5_OnlyCountsLog1pSpatial ==
    AdDone =>
        /\ AdFile = AdOut
        /\ AdOut.X.data = "X_counts"
        /\ DOMAIN AdOut.layers = {"X_log1p"}
        /\ DOMAIN AdOut.obsm = {"spatial"}
        /\ AdOut.uns = {} /\ AdOut.obsp = {} /\ AdOut.varm = {}
        /\ AdOut.varp = {} /\ AdOut.obs_cols = {} /\ AdOut.var_cols = {}

\* C5 (amended): the written and returned dataset holds the counts as X, the
\* "X_log1p" layer as its only layer and "spatial" as its only obsm entry,
\* and no uns, obsp or varm entry; the input's varp entries, obs columns and
\* var columns are kept.
C5_ClearsFiveContainers ==
    AdDone =>
        /\ AdFile = AdOut
        /\ AdOut.X.data = "X_counts"
        /\ DOMAIN AdOut.layers = {"X_log1p"}
        /\ DOMAIN AdOut.obsm = {"spatial"}
        /\ AdOut.uns = {} /\ AdOut.obsp = {} /\ AdOut.varm = {}
        /\ AdOut.varp = adRes.input.varp
        /\ adRes.input.obs_cols \subseteq AdOut.obs_cols
        /\ AdOut.var_cols = adRes.input.var_cols

C5_Witness ==
    /\ AdDone
    /\ adRes.input.uns # {} /\ adRes.input.obsp # {} /\ adRes.input.varm # {}
    /\ adRes.input.varp # {} /\ adRes.input.obs_cols # {} /\ adRes.input.var_cols # {}
    /\ "spliced" \in DOMAIN adRes.input.layers
    /\ "X_umap" \in DOMAIN adRes.input.obsm
    /\ AdOut.varp # {} /\ AdOut.uns = {}

\* C6: on both branches the output has the input's N observations, in the
\* same order, and its obsm["spatial"] is the input's obsm[spatial_key], of
\* shape (N, 3).
C6_SameObsAndSpatial ==
    AdDone =>
        /\ AdOut.obs = adRes.input.obs
        /\ AdFile.obs = adRes.input.obs
        /\ AdOut.obsm["spatial"] = adRes.input.obsm[adRes.spatial_key]
        /\ AdFile.obsm["spatial"] = adRes.input.obsm[adRes.spatial_key]
        /\ AdOut.obsm["spatial"].rows = Len(adRes.input.obs)
        /\ AdOut.obsm["spatial"].width = 3

C6_Witness ==
    /\ AdDone /\ adRes.X_log1p = None
    /\ Len(AdOut.obs) = MaxObs
    /\ adRes.spatial_key = "3d_align_spatial"
    /\ "spatial" \in DOMAIN adRes.input.obsm
    /\ AdOut.obsm["spatial"].data = "3d_align_spatial"

InstructsInstall(msg) == "install" \in Range(msg) \/ "Install" \in Range(msg)

IsImportError(kind) == kind \in {"ImportError", "ModuleNotFoundError"}

\* C7: when a needed optional dependency is missing (spateo in morphogenesis,
\* dynamo in anndata_preprocess with X_log1p=None) the operation fails with an
\* import error whose message tells the user to install the package, before
\* it modifies an input or writes an output.
C7_MissingDependencyInstructs ==
    /\ (morphoRes.kind # "idle" /\ "spateo" \notin morphoRes.installed) =>
          /\ IsImportError(morphoRes.kind)
          /\ InstructsInstall(morphoRes.msg)
          /\ morphoRes.point_data = {"obs_index"}
    /\ (/\ adRes.kind # "idle" /\ adRes.X_log1p = None
        /\ "dynamo" \notin adRes.installed
        /\ "X_counts" \in DOMAIN adRes.input.layers) =>
          /\ IsImportError(adRes.kind)
          /\ InstructsInstall(adRes.ret.msg)
          /\ adRes.ret.adata = adRes.input
          /\ adRes.ret.written = None

(***************************************************************************)
(* Properties of dataset_manager.py                                        *)
(***************************************************************************)
JustStored ==
    /\ lastRet.op \in {"file_url", "dir_url"}
    /\ lastRet.key # None /\ lastRet.path # None
    /\ lastRet.ret.kind # "error"

ReservedNames == Methods \cup Properties \cup InstanceAttrs

C10_Lookups ==
    /\ \A name \in Names : GetItem(assests, name) = Get(stored, name)
    /\ (lastRet.op = "get_assets" /\ Len(lastRet.keys) >= 1) =>
          /\ DOMAIN lastRet.ret.items = Range(lastRet.keys)
          /\ \A k \in Range(lastRet.keys) :
                lastRet.ret.items[k] = Get(stored, k)

C10_Frame ==
    (assests' # assests) =>
        /\ lastRet'.op \in {"file_url", "dir_url"}
        /\ lastRet'.key # None /\ lastRet'.path # None

\* C10: manager[key] is what the most recent storing call with that key
\* returned, or None if there was none; the store changes only in a file_url
\* or dir_url call whose key is not None after the swap, so a call with the
\* second argument None, a lookup and get_assets(*keys) leave it unchanged;
\* get_assets(*keys) with at least one key returns exactly the requested
\* keys, None for those never stored.
C10_StoreFollowsCalls == [](C10_Lookups) /\ [][C10_Frame]_vars

C10_Witness ==
    /\ lastRet.op = "get_assets"
    /\ lastRet.keys = <<"logo", "_root">>
    /\ lastRet.ret.items["logo"] = StrValue(Root \o <<"dataset">>)
    /\ lastRet.ret.items["_root"] = None
    /\ "logo.png" \notin DOMAIN assests

====
